---------------------------- MODULE Spec2Model ----------------------------
(***************************************************************************)
(* The mcufont encoder command-line front end (src/encoder/main.cc).       *)
(*                                                                         *)
(* One process at a time runs main() on an argument vector; processes are  *)
(* run one after the other on the same data file path.  The state is the   *)
(* content of that path on disk, the locals of the running command and a   *)
(* few history variables (which library functions were called, what was    *)
(* written) that the properties at the end of the module read.             *)
(***************************************************************************)
EXTENDS Integers, Sequences, FiniteSets, TLC

(***************************************************************************)
(* Bounds of the model.                                                    *)
(***************************************************************************)
MaxCode == 3        \* character codes are 1..MaxCode
MaxGlyphs == 2      \* glyphs of a data file found on disk at the start
MaxDict == 2        \* dictionary states 0..MaxDict
MaxLimit == 2       \* explicit iteration limits 0..MaxLimit on the command line
MaxIter == 3        \* iterations followed when the limit is 0 (no limit)

(***************************************************************************)
(* Program constants.                                                      *)
(***************************************************************************)
STATUS_OK == 0
STATUS_INVALID == 1
STATUS_ERROR == 2
DefaultLimit == 100

\* size_t arithmetic is modular.  The modulus only has to exceed every length
\* and size of the model; TLC's integers are 32 bits wide, so 2^30 stands for
\* SIZE_MAX + 1.
SizeMod == 2^30
SizeInc(j) == (j + 1) % SizeMod
SizeDec(j) == (j - 1) % SizeMod
SizeDiffReversed(a, b) == (b - a) % SizeMod
\* oldsize - newsize on size_t (line 290)
SizeDiff(a, b) == (a - b) % SizeMod

Codes == 1..MaxCode

(***************************************************************************)
(* Command-line arguments.  An argument is a word, a decimal number or a   *)
(* range "a-b"; s is the word itself, or the class of the text.            *)
(***************************************************************************)
W(s) == [s |-> s, a |-> 0, b |-> 0]
N(n) == [s |-> "num", a |-> n, b |-> 0]
R(x, y) == [s |-> "range", a |-> x, b |-> y]

DAT == W("font.dat")
BAD == W("x")

\* std::stoi(s): the number when the text is one, std::invalid_argument otherwise.
stoi_throws(t) == t.s # "num"
stoi(t) == t.a

\* strtol(s, nullptr, 0): 0 when no conversion can be performed.
strtol(t) == IF t.s = "num" THEN t.a ELSE 0

command_list ==
    {"import_ttf", "import_bdf", "export", "filter", "size", "optimize",
     "show_encoded", "show_glyph"}

(***************************************************************************)
(* Data files.  The dictionary is abstracted to a number 0..MaxDict, a     *)
(* bitmap to an identifier; a glyph is its character codes and its bitmap. *)
(***************************************************************************)
NoDat == [dictionary |-> 0, glyphs |-> << >>, fontinfo |-> "none"]
NullPtr == [null |-> TRUE, d |-> NoDat]
Ptr(d) == [null |-> FALSE, d |-> d]

\* The DataFile(dictionary, glyphs, fontinfo) constructor.
DataFile(dictionary, glyphs, fontinfo) ==
    [dictionary |-> dictionary, glyphs |-> glyphs, fontinfo |-> fontinfo]

GetGlyphCount(d) == Len(d.glyphs)

\* Content of the data file path.
Missing == [kind |-> "missing", d |-> NoDat]
Partial == [kind |-> "partial", d |-> NoDat]
Saved(d) == [kind |-> "dat", d |-> d]

\* DataFile::Load on the stream of a file with this content.
Load(c) == IF c.kind = "dat" THEN Ptr(c.d) ELSE NullPtr

\* The ascending list of the codes of a set.
RECURSIVE Ascending(_)
Ascending(S) ==
    IF S = {} THEN << >>
    ELSE LET m == CHOOSE x \in S : \A y \in S : x <= y
         IN <<m>> \o Ascending(S \ {m})

\* Glyph lists a loadable data file can hold: every glyph has a non-empty
\* ascending code list, no code is in two glyphs, bitmaps are distinct.
GlyphLists(n) ==
    { [k \in 1..n |-> [chars |-> Ascending(p[k]), data |-> k]] :
        p \in { q \in [1..n -> (SUBSET Codes) \ {{}}] :
                  \A x, y \in 1..n : x # y => q[x] \cap q[y] = {} } }

LoadableFiles ==
    { DataFile(k, g, "info") :
        k \in 0..MaxDict, g \in UNION { GlyphLists(n) : n \in 1..MaxGlyphs } }

\* What the data file path can hold before the first process runs: nothing,
\* text that is no data file, or a data file.
InitialDisks == {Missing, Partial} \cup { Saved(d) : d \in LoadableFiles }

\* The size of the encoded font: a fixed header, one entry per dictionary
\* state and a token stream per glyph that a larger dictionary shortens.
HeaderBytes == 4
get_encoded_size(d) ==
    HeaderBytes + d.dictionary + Len(d.glyphs) * (MaxDict + 1 - d.dictionary)

\* One iteration of the optimizer with proposal k: committed iff the size
\* strictly decreases, else the data file is left unchanged.
optimize(d, k) ==
    LET c == [d EXCEPT !.dictionary = k]
    IN IF get_encoded_size(c) < get_encoded_size(d) THEN c ELSE d

\* init_dictionary: seeds the dictionary of a freshly imported data file.
init_dictionary(d) == [d EXCEPT !.dictionary = 0]

(***************************************************************************)
(* cmd_filter's pure parts.                                                *)
(***************************************************************************)
\* A filter argument holds a '-' when it is a range or a negative number.
HasDash(t) == t.s = "range" \/ (t.s = "num" /\ t.a < 0)

\* Parsing one filter argument throws when std::stoi gets no number.
RangeThrows(t) == IF HasDash(t) THEN t.s # "range" ELSE stoi_throws(t)
RangeCodes(t) == IF HasDash(t) THEN t.a .. t.b ELSE {stoi(t)}

ParseThrows(ts) == \E k \in 1..Len(ts) : RangeThrows(ts[k])
ParseAllowed(ts) == UNION { RangeCodes(ts[k]) : k \in 1..Len(ts) }

\* g.chars.erase(g.chars.begin() + j), j counted from 0.
Erase(chars, j) == SubSeq(chars, 1, j) \o SubSeq(chars, j + 2, Len(chars))

\* The inner loop of cmd_filter from index j on; j is a size_t.
RECURSIVE FilterLoop(_, _, _)
FilterLoop(chars, j, allow) ==
    IF j < Len(chars)
    THEN IF chars[j + 1] \notin allow
         THEN FilterLoop(Erase(chars, j), SizeInc(SizeDec(j)), allow)
         ELSE FilterLoop(chars, SizeInc(j), allow)
    ELSE chars

\* The loop without its j--: the element after an erased one is skipped.
RECURSIVE FilterLoopSkip(_, _, _)
FilterLoopSkip(chars, j, allow) ==
    IF j < Len(chars)
    THEN IF chars[j + 1] \notin allow
         THEN FilterLoopSkip(Erase(chars, j), SizeInc(j), allow)
         ELSE FilterLoopSkip(chars, SizeInc(j), allow)
    ELSE chars

FilterCharsSkip(chars, allow) == FilterLoopSkip(chars, 0, allow)
FilterChars(chars, allow) == FilterLoop(chars, 0, allow)

\* Every glyph after the inner loop, dropped or not.
FilterAll(glyphs, allow) ==
    [k \in 1..Len(glyphs) |->
        [chars |-> FilterChars(glyphs[k].chars, allow), data |-> glyphs[k].data]]

KeepGlyphAlways(g) == TRUE
\* if (g.chars.size()) newglyphs.push_back(g);
KeepGlyph(g) == Len(g.chars) # 0

RECURSIVE Collect(_, _)
Collect(gs, k) ==
    IF k > Len(gs) THEN << >>
    ELSE (IF KeepGlyph(gs[k]) THEN <<gs[k]>> ELSE << >>) \o Collect(gs, k + 1)

\* The outer loop of cmd_filter: the glyphs pushed to newglyphs.
FilterGlyphs(glyphs, allow) == Collect(FilterAll(glyphs, allow), 1)

(***************************************************************************)
(* State.                                                                  *)
(***************************************************************************)
VARIABLES
    disk,       \* content of the data file path
    pc,         \* where the running process is
    args,       \* its argument vector (argv[1..])
    status,     \* main's status
    usage,      \* whether main printed usage_msg
    exitcode,   \* the value main returned (read when pc = "exited")
    f,          \* the command's std::unique_ptr<DataFile>
    allowed,    \* cmd_filter's set of allowed codes
    oldsize, newsize, sizediff, limit, i,   \* cmd_optimize's locals
    saveok,     \* what the last save_dat returned
    saveto,     \* the path save_dat writes: "dat" or "dest"
    \* history of the running process
    dispatched, \* main called a command
    cmdret,     \* what the command returned
    calls,      \* library functions called
    wrote,      \* paths created or overwritten
    loadres,    \* load_dat: "none" (not called), "null", "ok"
    impres,     \* the importer: "none" (not called), "null", "ok"
    orig,       \* the data file load_dat returned
    lastsaved,  \* the data file of the last save_dat that succeeded, else orig
    filtered,   \* cmd_filter: the glyphs after the inner loop
    prevsize,   \* cmd_optimize: the size measured before the last optimize call
    ncalls, nsaves, nfails, \* optimize calls, save_dat successes and failures
    ub          \* undefined behaviour executed: "none", "null_deref", "div_zero"

mainv == <<status, usage, exitcode, dispatched, cmdret>>
optv == <<oldsize, newsize, sizediff, limit, i, prevsize, ncalls>>
savev == <<saveok, saveto, nsaves, nfails, lastsaved>>
filtv == <<allowed, filtered>>
loadv == <<f, loadres, orig>>
vars == <<disk, pc, args, mainv, optv, savev, filtv, loadv,
          calls, wrote, impres, ub>>

(***************************************************************************)
(* The argument vectors the processes are started with.                    *)
(***************************************************************************)
RangeArgs == {N(1), N(3), R(2, 3), R(3, 2), BAD}

ArgsSet ==
    { << >>, <<W("bogus")>>, <<W("bogus"), DAT>> }
    \cup { <<W(c)>> : c \in command_list }
    \cup { <<W("import_ttf"), W("a.ttf"), N(12)>>,
           <<W("import_ttf"), W("a.ttf"), N(12), W("bw")>>,
           <<W("import_ttf"), W("a.ttf"), BAD>>,
           <<W("import_ttf"), W("a.ttf"), N(12), W("bw"), BAD>>,
           <<W("import_bdf"), W("a.bdf")>>,
           <<W("import_bdf"), W("a.bdf"), BAD>>,
           <<W("export"), DAT, W("out")>>,
           <<W("export"), DAT>>,
           <<W("filter"), DAT>>,
           <<W("size"), DAT>>,
           <<W("size"), DAT, BAD>>,
           <<W("optimize"), DAT>>,
           <<W("optimize"), DAT, BAD>>,
           <<W("optimize"), DAT, N(-1)>>,
           <<W("optimize"), DAT, N(1), BAD>>,
           <<W("show_encoded"), DAT>>,
           <<W("show_encoded"), DAT, BAD>>,
           <<W("show_glyph"), DAT>>,
           <<W("show_glyph"), DAT, W("largest")>>,
           <<W("show_glyph"), DAT, BAD>> }
    \cup { <<W("filter"), DAT, t>> : t \in RangeArgs }
    \cup { <<W("filter"), DAT, t, u>> : t, u \in RangeArgs }
    \cup { <<W("optimize"), DAT, N(l)>> : l \in 0..MaxLimit }
    \cup { <<W("show_glyph"), DAT, N(x)>> : x \in 0..MaxGlyphs }

Stopped == {"exited", "aborted", "crashed", "killed"}

Init ==
    /\ disk \in InitialDisks
    /\ pc = "idle"
    /\ args = << >>
    /\ status = STATUS_INVALID /\ usage = FALSE /\ exitcode = STATUS_OK
    /\ dispatched = FALSE /\ cmdret = STATUS_OK
    /\ f = NullPtr /\ loadres = "none" /\ orig = NoDat
    /\ allowed = {} /\ filtered = << >>
    /\ oldsize = 0 /\ newsize = 0 /\ sizediff = 0 /\ limit = 0 /\ i = 0
    /\ prevsize = 0 /\ ncalls = 0
    /\ saveok = FALSE /\ saveto = "dat" /\ nsaves = 0 /\ nfails = 0
    /\ lastsaved = NoDat
    /\ calls = {} /\ wrote = {} /\ impres = "none" /\ ub = "none"

\* The locals and the history of a process that is not running.
Fresh ==
    /\ status' = STATUS_INVALID /\ usage' = FALSE /\ exitcode' = STATUS_OK
    /\ dispatched' = FALSE /\ cmdret' = STATUS_OK
    /\ f' = NullPtr /\ loadres' = "none" /\ orig' = NoDat
    /\ allowed' = {} /\ filtered' = << >>
    /\ oldsize' = 0 /\ newsize' = 0 /\ sizediff' = 0 /\ limit' = 0 /\ i' = 0
    /\ prevsize' = 0 /\ ncalls' = 0
    /\ saveok' = FALSE /\ saveto' = "dat" /\ nsaves' = 0 /\ nfails' = 0
    /\ lastsaved' = NoDat
    /\ calls' = {} /\ wrote' = {} /\ impres' = "none" /\ ub' = "none"

\* The shell starts mcufont on an argument vector.
Start ==
    /\ pc = "idle"
    /\ \E a \in ArgsSet : args' = a
    /\ pc' = "main"
    /\ UNCHANGED <<disk, mainv, optv, savev, filtv, loadv, calls, wrote,
                   impres, ub>>

\* A process that has ended is gone with its memory; the data file path
\* keeps what it holds.
ProcessEnd ==
    /\ pc \in Stopped
    /\ pc' = "idle"
    /\ args' = << >>
    /\ Fresh
    /\ UNCHANGED disk

\* main, lines 417-425: look the command up and call it.
main ==
    /\ pc = "main"
    /\ IF Len(args) >= 1 /\ args[1].s \in command_list
       THEN /\ pc' = "cmd_" \o args[1].s
            /\ dispatched' = TRUE
       ELSE /\ pc' = "main_exit"
            /\ dispatched' = FALSE
    /\ UNCHANGED <<disk, args, status, usage, exitcode, cmdret, optv,
                   savev, filtv, loadv, calls, wrote, impres, ub>>

\* A command returns s: main assigns it to status (line 424).
Return(s) ==
    /\ cmdret' = s
    /\ status' = s
    /\ pc' = "main_exit"
    /\ UNCHANGED <<usage, exitcode, dispatched>>

\* An uncaught exception leaves the command: std::terminate ends the process.
Throw ==
    /\ pc' = "aborted"
    /\ UNCHANGED mainv

main_exit_zero ==
    /\ pc = "main_exit"
    /\ usage' = (status = STATUS_INVALID)
    /\ exitcode' = STATUS_OK
    /\ pc' = "exited"
    /\ UNCHANGED <<disk, args, status, dispatched, cmdret, optv, savev,
                   filtv, loadv, calls, wrote, impres, ub>>

\* main, lines 427-432: print the usage on STATUS_INVALID, return status.
main_exit ==
    /\ pc = "main_exit"
    /\ usage' = (status = STATUS_INVALID)
    /\ exitcode' = status
    /\ pc' = "exited"
    /\ UNCHANGED <<disk, args, status, dispatched, cmdret, optv, savev,
                   filtv, loadv, calls, wrote, impres, ub>>

\* load_dat(src): no data file when the path cannot be opened or
\* DataFile::Load rejects its content.
load_dat == IF disk.kind = "missing" THEN NullPtr ELSE Load(disk)

\* The history of a load_dat call that returned p.
Loaded(p) ==
    /\ f' = p
    /\ loadres' = IF p.null THEN "null" ELSE "ok"
    /\ orig' = p.d

(***************************************************************************)
(* save_dat(dest, f), in the two steps an interruption can fall between.   *)
(***************************************************************************)
\* A command calls save_dat on path p.
CallSave(p) ==
    /\ saveto' = p
    /\ pc' = "save_open"
    /\ UNCHANGED <<saveok, nsaves, nfails, lastsaved>>

\* std::ofstream outfile(dest): the path is created or truncated, unless it
\* cannot be opened, and then save_dat returns false (lines 53-59).
save_dat_open ==
    /\ pc = "save_open"
    /\ calls' = calls \cup {"save_dat"}
    /\ \E good \in BOOLEAN :
        IF good
        THEN /\ wrote' = wrote \cup {saveto}
             /\ disk' = IF saveto = "dat" THEN Partial ELSE disk
             /\ pc' = "save_write"
             /\ UNCHANGED <<saveok, nfails>>
        ELSE /\ saveok' = FALSE
             /\ nfails' = nfails + 1
             /\ pc' = "saved"
             /\ UNCHANGED <<wrote, disk>>
    /\ UNCHANGED <<args, mainv, optv, saveto, nsaves, lastsaved, filtv,
                   loadv, impres, ub>>

\* f->Save(outfile) and the test of the stream (lines 61-69).  Through a null
\* f the write is undefined: whatever reaches the path is no data file.
save_dat_write ==
    /\ pc = "save_write"
    /\ \E good \in BOOLEAN :
        IF good
        THEN /\ disk' = IF saveto # "dat" THEN disk
                        ELSE IF f.null THEN Partial ELSE Saved(f.d)
             /\ saveok' = TRUE
             /\ nsaves' = nsaves + 1
             /\ lastsaved' = f.d
             /\ UNCHANGED nfails
        ELSE /\ saveok' = FALSE
             /\ nfails' = nfails + 1
             /\ UNCHANGED <<disk, nsaves, lastsaved>>
    /\ pc' = "saved"
    /\ UNCHANGED <<args, mainv, optv, saveto, filtv, loadv, calls, wrote,
                   impres, ub>>

(***************************************************************************)
(* The import commands.                                                    *)
(***************************************************************************)
\* From the importer's result on (lines 98-102 and 126-130): the data file
\* is dereferenced unchecked.  On a null pointer that is undefined: the
\* process crashes, or goes on with whatever init_dictionary made of it.
Imported(p) ==
    /\ impres' = IF p.null THEN "null" ELSE "ok"
    /\ calls' = calls \cup {"init_dictionary"}
    /\ IF p.null
       THEN /\ ub' = "null_deref"
            /\ f' = p
            /\ \E crash \in BOOLEAN :
                IF crash
                THEN pc' = "crashed" /\ UNCHANGED savev
                ELSE CallSave("dest")
       ELSE /\ ub' = ub
            /\ f' = Ptr(init_dictionary(p.d))
            /\ CallSave("dest")
    /\ UNCHANGED <<loadres, orig, mainv>>

\* What LoadFreetype and LoadBDF can return: a data file, or none.
ImporterResults ==
    {NullPtr} \cup { Ptr(DataFile(MaxDict, g, "info")) : g \in GlyphLists(1) }

cmd_import_ttf ==
    /\ pc = "cmd_import_ttf"
    /\ IF Len(args) # 3 /\ Len(args) # 4
       THEN Return(STATUS_INVALID)
            /\ UNCHANGED <<savev, loadv, calls, impres, ub>>
       ELSE IF stoi_throws(args[3])
       THEN Throw /\ UNCHANGED <<savev, loadv, calls, impres, ub>>
       ELSE \E good \in BOOLEAN :
            IF ~good
            THEN Return(STATUS_ERROR)
                 /\ UNCHANGED <<savev, loadv, calls, impres, ub>>
            ELSE \E p \in ImporterResults : Imported(p)
    /\ UNCHANGED <<disk, args, optv, filtv, wrote>>

cmd_import_bdf ==
    /\ pc = "cmd_import_bdf"
    /\ IF Len(args) # 2
       THEN Return(STATUS_INVALID)
            /\ UNCHANGED <<savev, loadv, calls, impres, ub>>
       ELSE \E good \in BOOLEAN :
            IF ~good
            THEN Return(STATUS_ERROR)
                 /\ UNCHANGED <<savev, loadv, calls, impres, ub>>
            ELSE \E p \in ImporterResults : Imported(p)
    /\ UNCHANGED <<disk, args, optv, filtv, wrote>>

\* After save_dat in an import command (lines 102-106, 130-134);
\* f->GetGlyphCount() reads the data file once more.
import_saved ==
    /\ pc = "saved"
    /\ args[1].s \in {"import_ttf", "import_bdf"}
    /\ IF ~saveok
       THEN Return(STATUS_ERROR)
       ELSE Return(STATUS_OK)
    /\ UNCHANGED <<disk, args, optv, savev, filtv, loadv, calls, wrote,
                   impres, ub>>

(***************************************************************************)
(* The commands on a data file.                                            *)
(***************************************************************************)
cmd_export_unchecked ==
    /\ pc = "cmd_export"
    /\ IF Len(args) # 3
       THEN Return(STATUS_INVALID) /\ UNCHANGED <<loadv, calls, wrote>>
       ELSE /\ Loaded(load_dat)
            /\ wrote' = wrote \cup {"h", "c"}
            /\ calls' = calls \cup {"write_header", "write_source"}
            /\ Return(STATUS_OK)
    /\ UNCHANGED <<disk, args, optv, savev, filtv, impres, ub>>

cmd_export ==
    /\ pc = "cmd_export"
    /\ IF Len(args) # 3
       THEN Return(STATUS_INVALID) /\ UNCHANGED <<loadv, calls, wrote>>
       ELSE /\ Loaded(load_dat)
            /\ IF load_dat.null
               THEN Return(STATUS_ERROR) /\ UNCHANGED <<calls, wrote>>
               ELSE /\ wrote' = wrote \cup {"h", "c"}
                    /\ calls' = calls \cup {"write_header", "write_source"}
                    /\ Return(STATUS_OK)
    /\ UNCHANGED <<disk, args, optv, savev, filtv, impres, ub>>

\* cmd_filter up to its call of save_dat (lines 166-225).
cmd_filter ==
    /\ pc = "cmd_filter"
    /\ IF Len(args) < 3
       THEN Return(STATUS_INVALID) /\ UNCHANGED <<savev, filtv, loadv>>
       ELSE LET ts == SubSeq(args, 3, Len(args)) IN
            IF ParseThrows(ts)
            THEN Throw /\ UNCHANGED <<savev, filtv, loadv>>
            ELSE /\ allowed' = ParseAllowed(ts)
                 /\ loadres' = IF load_dat.null THEN "null" ELSE "ok"
                 /\ orig' = load_dat.d
                 /\ IF load_dat.null
                    THEN /\ f' = load_dat
                         /\ Return(STATUS_ERROR)
                         /\ UNCHANGED <<savev, filtered>>
                    ELSE LET d == load_dat.d IN
                         /\ filtered' = FilterAll(d.glyphs, allowed')
                         /\ f' = Ptr(DataFile(d.dictionary,
                                              FilterGlyphs(d.glyphs, allowed'),
                                              d.fontinfo))
                         /\ CallSave("dat")
                         /\ UNCHANGED mainv
    /\ UNCHANGED <<disk, args, optv, calls, wrote, impres, ub>>

\* After save_dat in cmd_filter (lines 225-228).
filter_saved ==
    /\ pc = "saved"
    /\ args[1].s = "filter"
    /\ IF ~saveok
       THEN Return(STATUS_ERROR)
       ELSE Return(STATUS_OK)
    /\ UNCHANGED <<disk, args, optv, savev, filtv, loadv, calls, wrote,
                   impres, ub>>

\* cmd_size (lines 233-252).  size / f->GetGlyphCount() with no glyph is a
\* division by zero: undefined; the process traps or prints some number.
cmd_size ==
    /\ pc = "cmd_size"
    /\ IF Len(args) # 2
       THEN Return(STATUS_INVALID) /\ UNCHANGED <<loadv, calls, ub>>
       ELSE /\ Loaded(load_dat)
            /\ IF load_dat.null
               THEN Return(STATUS_ERROR) /\ UNCHANGED <<calls, ub>>
               ELSE /\ calls' = calls \cup {"get_encoded_size"}
                    /\ IF GetGlyphCount(load_dat.d) = 0
                       THEN /\ ub' = "div_zero"
                            /\ \E crash \in BOOLEAN :
                                IF crash
                                THEN pc' = "crashed" /\ UNCHANGED mainv
                                ELSE Return(STATUS_OK)
                       ELSE /\ ub' = ub
                            /\ Return(STATUS_OK)
    /\ UNCHANGED <<disk, args, optv, savev, filtv, wrote, impres>>

cmd_show_encoded ==
    /\ pc = "cmd_show_encoded"
    /\ IF Len(args) # 2
       THEN Return(STATUS_INVALID) /\ UNCHANGED <<loadv, calls>>
       ELSE /\ Loaded(load_dat)
            /\ IF load_dat.null
               THEN Return(STATUS_ERROR) /\ UNCHANGED calls
               ELSE /\ calls' = calls \cup {"encode_font"}
                    /\ Return(STATUS_OK)
    /\ UNCHANGED <<disk, args, optv, savev, filtv, wrote, impres, ub>>

\* The indices "largest" can select (lines 359-376): 0 when there is no
\* glyph, else the index of some glyph.
LargestIndex(d) ==
    IF GetGlyphCount(d) = 0 THEN {0} ELSE 0..(GetGlyphCount(d) - 1)

cmd_show_glyph ==
    /\ pc = "cmd_show_glyph"
    /\ IF Len(args) # 3
       THEN Return(STATUS_INVALID) /\ UNCHANGED <<loadv, calls>>
       ELSE /\ Loaded(load_dat)
            /\ IF load_dat.null
               THEN Return(STATUS_ERROR) /\ UNCHANGED calls
               ELSE /\ calls' = IF args[3].s = "largest"
                                THEN calls \cup {"encode_font"} ELSE calls
                    /\ \E index \in IF args[3].s = "largest"
                                    THEN LargestIndex(load_dat.d)
                                    ELSE {strtol(args[3])} :
                        IF index < 0 \/ index >= GetGlyphCount(load_dat.d)
                        THEN Return(STATUS_ERROR)
                        ELSE Return(STATUS_OK)
    /\ UNCHANGED <<disk, args, optv, savev, filtv, wrote, impres, ub>>

(***************************************************************************)
(* cmd_optimize.                                                           *)
(***************************************************************************)
\* Up to the loop (lines 257-282).
cmd_optimize ==
    /\ pc = "cmd_optimize"
    /\ IF Len(args) # 2 /\ Len(args) # 3
       THEN Return(STATUS_INVALID)
            /\ UNCHANGED <<loadv, lastsaved, calls, oldsize, limit>>
       ELSE /\ Loaded(load_dat)
            /\ lastsaved' = load_dat.d
            /\ IF load_dat.null
               THEN Return(STATUS_ERROR) /\ UNCHANGED <<calls, oldsize, limit>>
               ELSE /\ oldsize' = get_encoded_size(load_dat.d)
                    /\ calls' = calls \cup {"get_encoded_size"}
                    /\ IF Len(args) = 3 /\ stoi_throws(args[3])
                       THEN Throw /\ UNCHANGED limit
                       ELSE /\ limit' = IF Len(args) = 3 THEN stoi(args[3])
                                        ELSE DefaultLimit
                            /\ pc' = "optimize_loop"
                            /\ UNCHANGED mainv
    /\ UNCHANGED <<disk, args, newsize, sizediff, i, prevsize, ncalls,
                   saveok, saveto, nsaves, nfails, filtv, wrote, impres, ub>>

LoopCondLe == limit = 0 \/ i <= limit
\* while (!limit || i < limit)
LoopCond == limit = 0 \/ i < limit

\* One pass of the loop up to its call of save_dat, or the end of the loop
\* (lines 283-298, 303).  With no limit the model follows MaxIter passes.
\* Of the printed speed only the size_t difference oldsize - newsize is kept;
\* the clock read by time() is taken not to run backwards, so the divisor
\* newtime - oldtime + 1 is at least 1.
optimize_loop ==
    /\ pc = "optimize_loop"
    /\ limit = 0 => i < MaxIter
    /\ IF LoopCond
       THEN /\ \E k \in 0..MaxDict : f' = Ptr(optimize(f.d, k))
            /\ ncalls' = ncalls + 1
            /\ prevsize' = get_encoded_size(f.d)
            /\ newsize' = get_encoded_size(f'.d)
            /\ sizediff' = SizeDiff(oldsize, newsize')
            /\ i' = i + 1
            /\ calls' = calls \cup {"optimize", "get_encoded_size"}
            /\ CallSave("dat")
            /\ UNCHANGED mainv
       ELSE /\ Return(STATUS_OK)
            /\ UNCHANGED <<f, ncalls, prevsize, newsize, sizediff, i, calls,
                           savev>>
    /\ UNCHANGED <<disk, args, oldsize, limit, filtv, loadres, orig,
                   wrote, impres, ub>>

optimize_saved_ignore ==
    /\ pc = "saved"
    /\ args[1].s = "optimize"
    /\ pc' = "optimize_loop"
    /\ UNCHANGED <<disk, args, mainv, optv, savev, filtv, loadv, calls,
                   wrote, impres, ub>>

\* After save_dat in the loop (lines 298-301).
optimize_saved ==
    /\ pc = "saved"
    /\ args[1].s = "optimize"
    /\ IF ~saveok
       THEN Return(STATUS_ERROR)
       ELSE pc' = "optimize_loop" /\ UNCHANGED mainv
    /\ UNCHANGED <<disk, args, optv, savev, filtv, loadv, calls, wrote,
                   impres, ub>>

\* "Press ctrl-C at any time to stop." (line 269): the user interrupts
\* cmd_optimize, which ends the process where it is.
Interrupt ==
    /\ Len(args) >= 1 /\ args[1].s = "optimize"
    /\ pc \in {"cmd_optimize", "optimize_loop", "save_open", "save_write",
               "saved"}
    /\ pc' = "killed"
    /\ UNCHANGED <<disk, args, mainv, optv, savev, filtv, loadv, calls,
                   wrote, impres, ub>>

Next ==
    \/ Start
    \/ ProcessEnd
    \/ main
    \/ main_exit
    \/ save_dat_open
    \/ save_dat_write
    \/ cmd_import_ttf
    \/ cmd_import_bdf
    \/ import_saved
    \/ cmd_export
    \/ cmd_filter
    \/ filter_saved
    \/ cmd_size
    \/ cmd_optimize
    \/ optimize_loop
    \/ optimize_saved
    \/ cmd_show_encoded
    \/ cmd_show_glyph
    \/ Interrupt

Spec == Init /\ [][Next]_vars

(***************************************************************************)
(* Properties.                                                             *)
(***************************************************************************)
Cmd == IF Len(args) >= 1 THEN args[1].s ELSE ""
Returned == pc \in {"main_exit", "exited"}

IsAllowed(c) == c \in allowed
HasAllowed(g) == \E k \in 1..Len(g.chars) : g.chars[k] \in allowed
Survivors == SelectSeq(orig.glyphs, HasAllowed)
FilterSaved == Cmd = "filter" /\ pc \in {"saved", "main_exit", "exited"} /\ saveok

\* C1: when cmd_filter has saved, the data file on disk has the dictionary
\* and the font info of the input, and its glyphs are exactly the input
\* glyphs that have at least one allowed code, with their bitmaps, in the
\* input's order.
C1_FilterFrame ==
    FilterSaved =>
        /\ disk.kind = "dat"
        /\ disk.d.dictionary = orig.dictionary
        /\ disk.d.fontinfo = orig.fontinfo
        /\ Len(disk.d.glyphs) = Len(Survivors)
        /\ \A k \in 1..Len(Survivors) :
               disk.d.glyphs[k].data = Survivors[k].data

\* A file of two glyphs of which the first is dropped and the second kept.
C1_Witness ==
    /\ FilterSaved /\ pc = "exited"
    /\ Len(orig.glyphs) = 2
    /\ Len(disk.d.glyphs) = 1
    /\ disk.d.glyphs[1].data = 2
    /\ disk.d.dictionary = MaxDict

\* C2: when cmd_optimize is interrupted after it loaded the data file, the
\* path holds a complete data file: the one loaded or the one of the last
\* save that completed.
C2_InterruptKeepsFile ==
    (Cmd = "optimize" /\ loadres = "ok" /\ pc = "killed") =>
        /\ disk.kind = "dat"
        /\ disk.d \in {orig, lastsaved}

\* C3: cmd_optimize reaches a further call of optimize only with every
\* earlier call saved to the data file path; a save fails at most once, right
\* after an optimize call, and the command then returns STATUS_ERROR.
C3_SaveAfterEachOptimize ==
    Cmd = "optimize" =>
        /\ pc = "optimize_loop" => (nsaves = ncalls /\ nfails = 0)
        /\ pc \in {"save_open", "save_write"} =>
               (saveto = "dat" /\ ncalls = nsaves + 1)
        /\ ncalls <= nsaves + nfails + 1
        /\ nfails <= 1
        /\ nfails = 1 =>
            /\ pc \in {"saved", "main_exit", "exited", "killed"}
            /\ ncalls = nsaves + 1
            /\ Returned => (cmdret = STATUS_ERROR /\ status = STATUS_ERROR)

\* The second save of a run fails.
C3_Witness ==
    /\ Cmd = "optimize" /\ pc = "exited"
    /\ nfails = 1 /\ nsaves = 1 /\ ncalls = 2
    /\ exitcode = STATUS_ERROR

CoreCalls ==
    {"optimize", "get_encoded_size", "encode_font", "write_header",
     "write_source"}

\* C5: when load_dat returns no data file the command has returned
\* STATUS_ERROR, no path was created or overwritten and none of optimize,
\* get_encoded_size, encode_font, write_header, write_source was called.
C5_LoadFailure ==
    loadres = "null" =>
        /\ Cmd \in {"export", "filter", "size", "optimize", "show_encoded",
                    "show_glyph"}
        /\ Returned
        /\ cmdret = STATUS_ERROR /\ status = STATUS_ERROR
        /\ wrote = {}
        /\ calls \cap CoreCalls = {}
        /\ "save_dat" \notin calls

C5_Witness ==
    /\ loadres = "null" /\ Cmd = "export" /\ pc = "exited"
    /\ disk.kind = "partial" /\ exitcode = STATUS_ERROR

\* C6: once cmd_filter has loaded the data file, the code list of every glyph
\* after filtering is the subsequence of allowed codes of its original list,
\* and every glyph kept has a non-empty list.
C6_FilterExact ==
    (Cmd = "filter" /\ loadres = "ok") =>
        /\ Len(filtered) = Len(orig.glyphs)
        /\ \A k \in 1..Len(filtered) :
               filtered[k].chars = SelectSeq(orig.glyphs[k].chars, IsAllowed)
        /\ \A k \in 1..Len(f.d.glyphs) : f.d.glyphs[k].chars # << >>

\* A glyph whose first two codes are disallowed and whose third is allowed.
C6_Witness ==
    /\ FilterSaved
    /\ \E k \in 1..Len(orig.glyphs) :
        LET c == orig.glyphs[k].chars IN
        /\ Len(c) = 3
        /\ c[1] \notin allowed /\ c[2] \notin allowed /\ c[3] \in allowed
        /\ \E m \in 1..Len(disk.d.glyphs) : disk.d.glyphs[m].chars = <<c[3]>>

ArgCountOK ==
    CASE Cmd = "import_ttf" -> Len(args) \in {3, 4}
      [] Cmd = "import_bdf" -> Len(args) = 2
      [] Cmd = "export" -> Len(args) = 3
      [] Cmd = "filter" -> Len(args) >= 3
      [] Cmd = "size" -> Len(args) = 2
      [] Cmd = "optimize" -> Len(args) \in {2, 3}
      [] Cmd = "show_encoded" -> Len(args) = 2
      [] Cmd = "show_glyph" -> Len(args) = 3
      [] OTHER -> FALSE

NothingTouched ==
    /\ wrote = {} /\ calls = {} /\ loadres = "none" /\ impres = "none"

\* C8: main returns the status of the command it called (STATUS_INVALID when
\* it called none) and prints the usage exactly when that is STATUS_INVALID;
\* a missing or unknown command name runs no command; a command given a wrong
\* number of arguments returns STATUS_INVALID with no file opened, loaded or
\* written.
C8_ExitStatus ==
    /\ pc = "exited" =>
        /\ exitcode = (IF dispatched THEN cmdret ELSE STATUS_INVALID)
        /\ exitcode \in {STATUS_OK, STATUS_INVALID, STATUS_ERROR}
        /\ usage <=> (exitcode = STATUS_INVALID)
    /\ (pc \notin {"idle", "main"} /\ Cmd \notin command_list) =>
        (~dispatched /\ NothingTouched /\ Returned)
    /\ (dispatched /\ ~ArgCountOK) =>
        /\ NothingTouched
        /\ pc \in {"cmd_" \o Cmd, "main_exit", "exited", "killed"}
        /\ Returned => cmdret = STATUS_INVALID
    /\ (Returned /\ dispatched /\ cmdret = STATUS_INVALID) => ~ArgCountOK

C8_Witness ==
    /\ pc = "exited" /\ dispatched /\ Cmd = "filter" /\ Len(args) = 2
    /\ usage /\ exitcode = STATUS_INVALID

C10_NoDivisionByZero ==
    Cmd = "size" => ub # "div_zero"

=============================================================================
